---- MODULE Spec2Model ----
(***************************************************************************)
(* Model of the elliptic-curve / ECDSA stack of libcrypto:                 *)
(*   dsa/ecdsa.rs                    generate_signature                    *)
(*   elliptic_curve/point/affine.rs  AffinePoint (add, neg, double, ...)   *)
(* The library is stateless: a behaviour is one call.  Init draws the      *)
(* operation and its arguments, the operation's action computes what the   *)
(* call does (a returned value or a panic).                                *)
(*                                                                         *)
(* The 256-bit curve is scaled down to a curve of the same shape as        *)
(* secp256r1: a = p - 3, prime group order n with n < p < 2^HashBits.      *)
(* FieldElement, ProjectivePoint and secp256r1::Point are not part of the  *)
(* sources at hand; they are modelled from the specification's contracts.  *)
(***************************************************************************)
EXTENDS Integers, Sequences, FiniteSets, TLC

VARIABLES op, self, rhs, msg_hash, key, secret_num, status, ret, divzero

\* The state of a call of the symmetric layer (gcm.rs, chacha20.rs): the byte
\* buffers and arguments of the call, and whether the build checks integer
\* overflow (overflow-checks: an overflowing `+` panics, or it wraps).
VARIABLES buf, msg, add_data, init_vector, tag, chacha_nonce, counter, absorbed,
          overflow_checks

symvars == <<buf, msg, add_data, init_vector, tag, chacha_nonce, counter, absorbed,
             overflow_checks>>

vars == <<op, self, rhs, msg_hash, key, secret_num, status, ret, divzero,
          buf, msg, add_data, init_vector, tag, chacha_nonce, counter, absorbed,
          overflow_checks>>

(* ------------------------- curve parameters --------------------------- *)
\* The field prime p.
P == 31
\* The order n of the curve group (prime, n < p).
N == 23
\* The curve coefficients: y^2 = x^3 + A*x + B (mod P), A = P - 3.
A == 28
B == 25
\* The base point G.
Gx == 9
Gy == 13
\* FieldElement::ONE
ONE == 1
\* Width in bits of the digest hash_func returns (32 bytes in the code).
HashBits == 5

G == <<Gx, Gy>>
Digests == 0 .. (2 ^ HashBits - 1)

(* --------------------------- FieldElement ----------------------------- *)
FieldElements == 0 .. (P - 1)

\* UBigInt -> FieldElement (`.into()`): the canonical residue modulo p.
FieldElement_from(v) == v % P

FieldElement_add(a, b) == (a + b) % P

FieldElement_sub(a, b) == (a + P - b) % P

FieldElement_mul(a, b) == (a * b) % P

FieldElement_sqr(a) == (a * a) % P

FieldElement_neg(a) == (P - a) % P

\* inverse: the multiplicative inverse modulo p.  The inverse of zero "fails or
\* is undefined": either the call panics (no value, <<>>) or it yields the
\* 0 that Fermat exponentiation 0^(p-2) produces.
FieldElement_inverse(a) ==
    IF a = 0
    THEN {<<>>, <<0>>}
    ELSE {<<CHOOSE b \in FieldElements : (a * b) % P = 1>>}

\* div: a * b^-1, with the outcomes of inverse.
FieldElement_div(a, b) ==
    {IF i = <<>> THEN <<>> ELSE <<FieldElement_mul(a, i[1])>> :
        i \in FieldElement_inverse(b)}

(* ------------------------ the curve as a group ------------------------ *)
OnCurve(x, y) ==
    (y * y) % P = (x * x * x + A * x + B) % P

\* The finite points of the curve: the values an AffinePoint may hold.
CurvePoints == {pt \in FieldElements \X FieldElements : OnCurve(pt[1], pt[2])}

\* Every value the struct AffinePoint {x, y} can hold (new_unchecked).
AffineValues == FieldElements \X FieldElements

\* The point at infinity of the mathematical group.
Infinity == <<>>

\* The group law (specification 4.3), used by scalar multiplication.
GroupAdd(p, q) ==
    IF p = Infinity THEN q
    ELSE IF q = Infinity THEN p
    ELSE IF p[1] = q[1] /\ p[2] = FieldElement_neg(q[2]) THEN Infinity
    ELSE LET num == IF p = q
                    THEN FieldElement_add(FieldElement_mul(3, FieldElement_sqr(p[1])), A)
                    ELSE FieldElement_sub(q[2], p[2])
             den == IF p = q
                    THEN FieldElement_mul(2, p[2])
                    ELSE FieldElement_sub(q[1], p[1])
             lambda == FieldElement_mul(num, CHOOSE b \in FieldElements : (den * b) % P = 1)
             x3 == FieldElement_sub(FieldElement_sub(FieldElement_sqr(lambda), p[1]), q[1])
             y3 == FieldElement_sub(FieldElement_mul(lambda, FieldElement_sub(p[1], x3)), p[2])
         IN <<x3, y3>>

\* mul_scalar: k * pt by double-and-add over the bits of k; 0 * pt is infinity.
RECURSIVE mul_scalar(_, _)
mul_scalar(pt, k) ==
    IF k = 0
    THEN Infinity
    ELSE LET h == mul_scalar(pt, k \div 2)
             d == GroupAdd(h, h)
         IN IF k % 2 = 1 THEN GroupAdd(d, pt) ELSE d

\* `.0` of a secp256r1::Point: its x-coordinate.  The pair type has no state
\* for the point at infinity, whose first component is therefore any value.
Point_0(pt) == IF pt = Infinity THEN FieldElements ELSE {pt[1]}

(* ----------------------------- outcomes ------------------------------- *)
Returned(v, dz) == [status |-> "returned", ret |-> v, divzero |-> dz]

Panicked(dz) == [status |-> "panicked", ret |-> <<>>, divzero |-> dz]

(* ------------------------------ ecdsa.rs ------------------------------ *)
\* generate_signature with the base point multiplied by the inverse of the
\* nonce instead of the nonce.
generate_signature_inverse_point(h, k, nonce) ==
    LET hash == FieldElement_from(h)
    IN UNION {
         IF inverse = <<>>
         THEN {Panicked(nonce = 0)}
         ELSE {Returned(<<x, FieldElement_mul(inverse[1],
                              FieldElement_add(hash, FieldElement_mul(x, k)))>>,
                        nonce = 0) : x \in Point_0(mul_scalar(G, inverse[1]))}
         : inverse \in FieldElement_inverse(nonce)}

\* generate_signature(msg, key, hash_func, secret_num), with h the digest
\* hash_func(msg) read as a big-endian integer.
generate_signature(h, k, nonce) ==
    LET hash == FieldElement_from(h)
        new_point == mul_scalar(G, nonce)
    IN UNION {
         IF inverse = <<>>
         THEN {Panicked(nonce = 0)}
         ELSE {Returned(<<x, FieldElement_mul(inverse[1],
                              FieldElement_add(hash, FieldElement_mul(x, k)))>>,
                        nonce = 0) : x \in Point_0(new_point)}
         : inverse \in FieldElement_inverse(nonce)}

(* ------------------------------ affine.rs ----------------------------- *)
\* as_projective with FieldElement::ZERO for Z.
AffinePoint_as_projective_zero(p) == <<p[1], p[2], 0>>

\* AffinePoint::as_projective
AffinePoint_as_projective(p) == <<p[1], p[2], ONE>>

\* ProjectivePoint::as_affine: (X/Z, Y/Z); Z = 0 is the point at infinity.
ProjectivePoint_as_affine(pp) ==
    IF pp[3] = 0
    THEN {Infinity}
    ELSE {<<FieldElement_mul(pp[1], i[1]), FieldElement_mul(pp[2], i[1])>> :
            i \in FieldElement_inverse(pp[3])}

\* From<ProjectivePoint> for AffinePoint
AffinePoint_from(pp) == ProjectivePoint_as_affine(pp)

\* AffinePoint::add
AffinePoint_add(p, q) ==
    LET den == FieldElement_sub(q[1], p[1])
    IN {IF lambda = <<>>
        THEN Panicked(den = 0)
        ELSE LET x == FieldElement_sub(
                          FieldElement_sub(FieldElement_sqr(lambda[1]), p[1]), q[1])
                 y == FieldElement_sub(
                          FieldElement_mul(lambda[1], FieldElement_sub(p[1], q[1])),
                          p[2])
             IN Returned(<<x, y>>, den = 0)
        : lambda \in FieldElement_div(FieldElement_sub(q[2], p[2]), den)}

\* AffinePoint::neg
AffinePoint_neg(p) == <<p[1], FieldElement_neg(p[2])>>

\* AffinePoint::double: todo!()
AffinePoint_double(p) == {Panicked(FALSE)}

\* AffinePoint::double_assign: todo!()
AffinePoint_double_assign(p) == {Panicked(FALSE)}

(* ---------------------------- state machine --------------------------- *)
\* No call of the symmetric layer is in progress.
SymIdle ==
    /\ buf = <<>> /\ msg = <<>> /\ add_data = <<>> /\ init_vector = <<>>
    /\ tag = <<>> /\ chacha_nonce = <<>> /\ counter = 0 /\ absorbed = 0
    /\ overflow_checks = FALSE

PointOps == {"neg", "double", "double_assign", "as_projective", "round_trip"}

Init ==
    /\ status = "pending"
    /\ ret = <<>>
    /\ divzero = FALSE
    /\ SymIdle
    /\ \/ /\ op = "generate_signature"
          /\ msg_hash \in Digests
          /\ key \in FieldElements
          /\ secret_num \in FieldElements
          /\ self = <<>>
          /\ rhs = <<>>
       \/ /\ op = "add"
          /\ self \in CurvePoints
          /\ rhs \in CurvePoints
          /\ msg_hash = 0 /\ key = 0 /\ secret_num = 0
       \/ /\ op \in PointOps
          /\ self \in CurvePoints
          /\ rhs = <<>>
          /\ msg_hash = 0 /\ key = 0 /\ secret_num = 0

Finish(o) ==
    /\ status' = o.status
    /\ ret' = o.ret
    /\ divzero' = o.divzero
    /\ UNCHANGED <<op, self, rhs, msg_hash, key, secret_num>>
    /\ UNCHANGED symvars

Sign ==
    /\ op = "generate_signature" /\ status = "pending"
    /\ \E o \in generate_signature(msg_hash, key, secret_num) : Finish(o)

Add ==
    /\ op = "add" /\ status = "pending"
    /\ \E o \in AffinePoint_add(self, rhs) : Finish(o)

Neg ==
    /\ op = "neg" /\ status = "pending"
    /\ Finish(Returned(AffinePoint_neg(self), FALSE))

Double ==
    /\ op = "double" /\ status = "pending"
    /\ \E o \in AffinePoint_double(self) : Finish(o)

DoubleAssign ==
    /\ op = "double_assign" /\ status = "pending"
    /\ \E o \in AffinePoint_double_assign(self) : Finish(o)

AsProjective ==
    /\ op = "as_projective" /\ status = "pending"
    /\ Finish(Returned(AffinePoint_as_projective(self), FALSE))

RoundTrip ==
    /\ op = "round_trip" /\ status = "pending"
    /\ \E v \in AffinePoint_from(AffinePoint_as_projective(self)) :
          Finish(Returned(v, FALSE))

Next ==
    \/ Sign
    \/ Add
    \/ Neg
    \/ Double
    \/ DoubleAssign
    \/ AsProjective
    \/ RoundTrip

Spec == Init /\ [][Next]_vars

(* ------------------------- reference notions -------------------------- *)
\* The inverse modulo the curve order n.
InverseModN(k) == CHOOSE b \in 1 .. (N - 1) : (k * b) % N = 1

\* k * pt as pt added to itself k times.
RECURSIVE Multiple(_, _)
Multiple(pt, k) == IF k = 0 THEN Infinity ELSE GroupAdd(Multiple(pt, k - 1), pt)

\* A key or a nonce in the range ECDSA draws them from.
Scalars == 1 .. (N - 1)

Signed == op = "generate_signature" /\ status = "returned"

Added == op = "add" /\ status # "pending"

(* -------------------------------- C1 ---------------------------------- *)
\* C1: for every message, private key and non-zero nonce generate_signature
\* returns s = nonce^-1 * (h + r * private_key), the inverse, the product and
\* the sum taken modulo the curve order n, h the digest reduced modulo n and
\* r the first returned component.
C1_SModuloOrder ==
    (Signed /\ key \in Scalars /\ secret_num \in Scalars) =>
        ret[2] = (InverseModN(secret_num)
                    * ((msg_hash % N) + (ret[1] % N) * key)) % N

C3_NoZeroComponent ==
    (Signed /\ key \in Scalars /\ secret_num \in Scalars) =>
        ret[1] # 0 /\ ret[2] # 0

(* -------------------------------- C4 ---------------------------------- *)
\* C4: a call of generate_signature with a zero nonce ends in a domain error
\* surfaced to the caller, and returns no (r, s) pair.
C4_ZeroNonceRejected ==
    (op = "generate_signature" /\ status # "pending" /\ secret_num = 0) =>
        status = "domain_error"

(* -------------------------------- C5 ---------------------------------- *)
\* C5: for finite points P = (x1, y1), Q = (x2, y2) of the curve with
\* x1 # x2, add returns (x3, y3) with lambda = (y2 - y1)/(x2 - x1),
\* x3 = lambda^2 - x1 - x2, y3 = lambda*(x1 - x3) - y1: the group sum, a point
\* of the curve.
C5_ChordFormula ==
    (Added /\ self[1] # rhs[1]) =>
        LET lambda == FieldElement_mul(
                          FieldElement_sub(rhs[2], self[2]),
                          CHOOSE b \in FieldElements :
                              (FieldElement_sub(rhs[1], self[1]) * b) % P = 1)
            x3 == FieldElement_sub(
                      FieldElement_sub(FieldElement_sqr(lambda), self[1]), rhs[1])
            y3 == FieldElement_sub(
                      FieldElement_mul(lambda, FieldElement_sub(self[1], x3)), self[2])
        IN /\ status = "returned"
           /\ ret = <<x3, y3>>
           /\ ret \in CurvePoints
           /\ ret = GroupAdd(self, rhs)

(* -------------------------------- C6 ---------------------------------- *)
\* C6: some value of AffinePoint stands for the point at infinity and is the
\* identity of add: P.add(infinity) = P and infinity.add(P) = P for every
\* affine point P.
C6_InfinityIsIdentity ==
    Added =>
        \E infinity \in AffineValues : \A pt \in CurvePoints :
            /\ AffinePoint_add(pt, infinity) = {Returned(pt, FALSE)}
            /\ AffinePoint_add(infinity, pt) = {Returned(pt, FALSE)}

(* -------------------------------- C7 ---------------------------------- *)
\* C7: P.add(P.neg()) is the point at infinity: the call divides by no zero
\* and returns no finite point.
C7_AddNegIsInfinity ==
    (Added /\ rhs = AffinePoint_neg(self)) =>
        /\ ~divzero
        /\ status = "returned"
        /\ ret \notin CurvePoints

(* -------------------------------- C8 ---------------------------------- *)
\* C8: P.add(P) = P.double(): add of equal operands evaluates no chord slope
\* with a zero denominator and returns what double returns.
C8_AddSelfIsDouble ==
    (Added /\ rhs = self) =>
        /\ ~divzero
        /\ status = "returned"
        /\ \E d \in AffinePoint_double(self) : d.status = "returned" /\ d.ret = ret

(* -------------------------------- C9 ---------------------------------- *)
\* C9: double(P) of a finite P = (x1, y1) ends with a point: (x3, y3) with
\* lambda = (3*x1^2 + a)/(2*y1), x3 = lambda^2 - 2*x1,
\* y3 = lambda*(x1 - x3) - y1 when y1 # 0, the point at infinity when y1 = 0;
\* double_assign leaves self equal to that point.
C9_DoubleFormula ==
    (op \in {"double", "double_assign"} /\ status # "pending") =>
        /\ status = "returned"
        /\ ret = IF self[2] = 0
                 THEN Infinity
                 ELSE LET lambda == FieldElement_mul(
                              FieldElement_add(
                                  FieldElement_mul(3, FieldElement_sqr(self[1])), A),
                              CHOOSE b \in FieldElements :
                                  (FieldElement_mul(2, self[2]) * b) % P = 1)
                          x3 == FieldElement_sub(FieldElement_sqr(lambda),
                                                 FieldElement_mul(2, self[1]))
                          y3 == FieldElement_sub(
                                    FieldElement_mul(lambda,
                                                     FieldElement_sub(self[1], x3)),
                                    self[2])
                      IN <<x3, y3>>

(* -------------------------------- C10 --------------------------------- *)
\* C10: P.as_projective() is exactly (x, y, 1), and converting it back to
\* affine gives P again.
C10_ProjectiveRoundTrip ==
    /\ (op = "as_projective" /\ status # "pending") =>
           status = "returned" /\ ret = <<self[1], self[2], 1>>
    /\ (op = "round_trip" /\ status # "pending") =>
           status = "returned" /\ ret = self

\* A point converted to projective and back.
C10_Witness ==
    /\ op = "round_trip"
    /\ status = "returned"
    /\ ret = self
    /\ self \in CurvePoints

(***************************************************************************)
(* The symmetric layer: gcm.rs and chacha/chacha20.rs.                     *)
(* Bytes are ByteBits wide (8 in the code); every width of the code is     *)
(* scaled with it.  aes::AesCipher is not part of the sources at hand: it  *)
(* is modelled as a keyed permutation of the blocks.                       *)
(***************************************************************************)
\* Width of a byte (u8).
ByteBits == 2
\* aes::BLOCK_SIZE, in bytes (16 in the code).
BLOCK_SIZE == 6
\* IV_SIZE, in bytes (12 in the code): the counter block is the IV followed
\* by BLOCK_SIZE - IV_SIZE bytes holding the number 1.
IV_SIZE == 5
\* R: the reduction constant of gf_2to128_mult, 0xe1 << 120 in the code; here
\* that of x^12 + x^6 + x^4 + x + 1, bit-reflected in the same way.
R == 3232
\* Longest plain text, additional data and cipher text that are drawn.
MaxText == 13
MaxAad == 7
MaxCipher == 7

Bytes == 0 .. (2 ^ ByteBits - 1)
BlockBits == BLOCK_SIZE * ByteBits
\* 2^128 in the code: the number of values of a block read as an integer.
BlockValues == 2 ^ BlockBits

(* ----------------------------- bit helpers ---------------------------- *)
\* a ^ b on non-negative integers.
RECURSIVE Xor(_, _)
Xor(a, b) ==
    IF a = 0 THEN b
    ELSE IF b = 0 THEN a
    ELSE 2 * Xor(a \div 2, b \div 2) + ((a + b) % 2)

\* uN::from_be_bytes
RECURSIVE from_be_bytes(_)
from_be_bytes(bs) ==
    IF bs = <<>>
    THEN 0
    ELSE from_be_bytes(SubSeq(bs, 1, Len(bs) - 1)) * (2 ^ ByteBits) + bs[Len(bs)]

\* uN::to_be_bytes, for an integer of n bytes.
to_be_bytes(v, n) ==
    [i \in 1 .. n |-> (v \div (2 ^ (ByteBits * (n - i)))) % (2 ^ ByteBits)]

\* The bytes drawn as inputs: the sequence (s*1, s*2, ..., s*len) mod 2^ByteBits.
Pattern(len, s) == [i \in 1 .. len |-> (s * i) % (2 ^ ByteBits)]

Seeds == {0, 1, 3}

Patterns(maxlen) == {Pattern(len, s) : len \in 0 .. maxlen, s \in Seeds}

(* ------------------------------- gcm.rs ------------------------------- *)
GcmKeys == {0, 1}

\* AesCipher::encrypt of one block (read as an integer) under key k: a
\* permutation of the blocks for every key.
AesCipher_encrypt(k, block) == (block * 2731 + 977 * k + 1234) % BlockValues

\* Gcm::new: h is the encryption of the all-zero block.
Gcm_h(k) == AesCipher_encrypt(k, 0)

\* gf_2to128_mult, from bit i down to bit 0 of b.
RECURSIVE gf_mult_from(_, _, _, _)
gf_mult_from(i, b, temp, product) ==
    IF i < 0
    THEN product
    ELSE gf_mult_from(
             i - 1, b,
             IF temp % 2 = 0 THEN temp \div 2 ELSE Xor(temp \div 2, R),
             IF (b \div (2 ^ i)) % 2 = 1 THEN Xor(product, temp) ELSE product)

gf_2to128_mult(a, b) == gf_mult_from(BlockBits - 1, b, a, 0)

\* gf_2to128_mult(x, h) for every block x and every hash key h in use,
\* computed once.
mult_by_h ==
    [h \in {Gcm_h(k) : k \in GcmKeys} |->
        [x \in 0 .. (BlockValues - 1) |-> gf_2to128_mult(x, h)]]

\* add_block.  The running state of g_hash is <<tag, number of blocks added>>.
add_block(t, block, h) ==
    <<mult_by_h[h][Xor(t[1], from_be_bytes(block))], t[2] + 1>>

\* for block in data.chunks_exact(BLOCK_SIZE) { add_block(..) }
RECURSIVE add_chunks_exact(_, _, _)
add_chunks_exact(t, data, h) ==
    IF Len(data) < BLOCK_SIZE
    THEN t
    ELSE add_chunks_exact(add_block(t, SubSeq(data, 1, BLOCK_SIZE), h),
                          SubSeq(data, BLOCK_SIZE + 1, Len(data)), h)

\* last_block: the len % BLOCK_SIZE last bytes of data, then zeros.
last_block(data) ==
    LET end == Len(data) % BLOCK_SIZE
    IN [i \in 1 .. BLOCK_SIZE |->
           IF i <= end THEN data[Len(data) - end + i] ELSE 0]

\* The counter block of encrypt_inline and decrypt_inline: iv || 0 .. 0 1.
counter_block(iv) ==
    [i \in 1 .. BLOCK_SIZE |->
        IF i <= Len(iv) THEN iv[i] ELSE IF i = BLOCK_SIZE THEN 1 ELSE 0]

\* Gcm::g_hash: [tag, absorbed], absorbed the number of add_block calls.
g_hash(k, ct, ad, ctr) ==
    LET h == Gcm_h(k)
        t1 == add_chunks_exact(<<0, 0>>, ad, h)
        t2 == add_block(t1, last_block(ad), h)
        t3 == add_chunks_exact(t2, ct, h)
        t4 == add_block(t3, last_block(ct), h)
        lens == ((Len(ad) * ByteBits * (2 ^ (BlockBits \div 2)))
                    + Len(ct) * ByteBits) % BlockValues
        t5 == mult_by_h[h][Xor(t4[1], lens)]
        encrypted_iv == AesCipher_encrypt(k, from_be_bytes(ctr))
    IN [tag |-> to_be_bytes(Xor(t5, encrypted_iv), BLOCK_SIZE),
        absorbed |-> t4[2]]

\* Gcm::xor_bit_stream from chunk number i on: [panicked, data].  The sum
\* iv_as_int + 1 + i overflows the block-wide integer when it reaches
\* BlockValues: the call panics when the build checks overflow, and the sum
\* wraps when it does not.
RECURSIVE xor_chunks(_, _, _, _, _)
xor_chunks(k, data, iv_as_int, i, checks) ==
    IF Len(data) <= i * BLOCK_SIZE
    THEN [panicked |-> FALSE, data |-> data]
    ELSE LET sum == iv_as_int + 1 + i
         IN IF sum >= BlockValues /\ checks
            THEN [panicked |-> TRUE, data |-> data]
            ELSE LET stream == to_be_bytes(
                                   AesCipher_encrypt(k, sum % BlockValues),
                                   BLOCK_SIZE)
                     xored == [j \in 1 .. Len(data) |->
                                  IF j > i * BLOCK_SIZE /\ j <= (i + 1) * BLOCK_SIZE
                                  THEN Xor(data[j], stream[j - i * BLOCK_SIZE])
                                  ELSE data[j]]
                 IN xor_chunks(k, xored, iv_as_int, i + 1, checks)

xor_bit_stream(k, data, ctr, checks) ==
    xor_chunks(k, data, from_be_bytes(ctr), 0, checks)

\* Gcm::encrypt_inline: [panicked, data, tag].
Gcm_encrypt_inline(k, plain_text, ad, iv, checks) ==
    LET ctr == counter_block(iv)
        x == xor_bit_stream(k, plain_text, ctr, checks)
    IN IF x.panicked
       THEN [panicked |-> TRUE, data |-> x.data, tag |-> <<>>]
       ELSE [panicked |-> FALSE, data |-> x.data,
             tag |-> g_hash(k, x.data, ad, ctr).tag]

\* Gcm::encrypt: encrypt_inline on a copy of plain_text.
Gcm_encrypt(k, plain_text, ad, iv, checks) ==
    Gcm_encrypt_inline(k, plain_text, ad, iv, checks)

\* decrypt_inline applying the bit stream before it compares the tags.
Gcm_decrypt_inline_xor_first(k, cipher_text, ad, iv, t, checks) ==
    LET ctr == counter_block(iv)
        x == xor_bit_stream(k, cipher_text, ctr, checks)
    IN IF x.panicked
       THEN [status |-> "panicked", data |-> x.data]
       ELSE [status |-> IF g_hash(k, cipher_text, ad, ctr).tag # t
                        THEN "bad_data" ELSE "ok",
             data |-> x.data]

\* Gcm::decrypt_inline: [status, data], status "ok" for Ok(()), "bad_data"
\* for Err(BadData).
Gcm_decrypt_inline(k, cipher_text, ad, iv, t, checks) ==
    LET ctr == counter_block(iv)
    IN IF g_hash(k, cipher_text, ad, ctr).tag # t
       THEN [status |-> "bad_data", data |-> cipher_text]
       ELSE LET x == xor_bit_stream(k, cipher_text, ctr, checks)
            IN [status |-> IF x.panicked THEN "panicked" ELSE "ok",
                data |-> x.data]

\* Gcm::decrypt: [status, ret], ret the Vec of Ok(buffer).
Gcm_decrypt(k, cipher_text, ad, iv, t, checks) ==
    LET d == Gcm_decrypt_inline(k, cipher_text, ad, iv, t, checks)
    IN [status |-> d.status, ret |-> IF d.status = "ok" THEN d.data ELSE <<>>]

(* ------------------------ gcm.rs: state machine ----------------------- *)
\* The values of a tag that are drawn: the tag g_hash computes, or that tag
\* with the bits of a mask flipped.
TagMasks == {0, 1, BlockValues \div 2}

IVs == {Pattern(IV_SIZE, s) : s \in {0, 1}}
           \cup {[i \in 1 .. IV_SIZE |-> 2 ^ ByteBits - 1]}

\* The tag g_hash computes for each cipher text that is drawn, computed once.
authentic_tag ==
    [k \in GcmKeys |-> [iv \in IVs |-> [ad \in Patterns(MaxAad) |->
        [ct \in Patterns(MaxCipher) |->
            g_hash(k, ct, ad, counter_block(iv)).tag]]]]

EcIdle ==
    /\ self = <<>> /\ rhs = <<>> /\ msg_hash = 0 /\ secret_num = 0
    /\ divzero = FALSE

InitGcm ==
    /\ status = "pending"
    /\ ret = <<>>
    /\ EcIdle
    /\ chacha_nonce = <<>> /\ counter = 0 /\ absorbed = 0
    /\ overflow_checks \in BOOLEAN
    /\ key \in GcmKeys
    /\ init_vector \in IVs
    /\ add_data \in Patterns(MaxAad)
    /\ \/ /\ op = "encrypt"
          /\ msg \in Patterns(MaxText)
          /\ buf = <<>>
          /\ tag = <<>>
       \/ /\ op \in {"decrypt_inline", "decrypt"}
          /\ msg = <<>>
          /\ buf \in Patterns(MaxCipher)
          /\ \E m \in TagMasks :
                tag = to_be_bytes(
                          Xor(from_be_bytes(
                                  authentic_tag[key][init_vector][add_data][buf]),
                              m),
                          BLOCK_SIZE)
       \/ /\ op = "g_hash"
          /\ msg = <<>>
          /\ buf \in Patterns(MaxCipher)
          /\ tag = <<>>

GcmFrame ==
    UNCHANGED <<op, self, rhs, msg_hash, key, secret_num, divzero, msg,
                add_data, init_vector, chacha_nonce, counter, overflow_checks>>

\* cipher.encrypt(&plain_text, &add_data, &init_vector)
GcmEncrypt ==
    /\ op = "encrypt" /\ status = "pending"
    /\ LET e == Gcm_encrypt(key, msg, add_data, init_vector, overflow_checks)
       IN IF e.panicked
          THEN status' = "panicked" /\ UNCHANGED <<buf, tag>>
          ELSE status' = "encrypted" /\ buf' = e.data /\ tag' = e.tag
    /\ UNCHANGED <<ret, absorbed>>
    /\ GcmFrame

\* cipher.decrypt(&encrypted_message, &add_data, &init_vector, &generated_tag)
GcmDecryptEncrypted ==
    /\ op = "encrypt" /\ status = "encrypted"
    /\ LET d == Gcm_decrypt(key, buf, add_data, init_vector, tag, overflow_checks)
       IN status' = d.status /\ ret' = d.ret
    /\ UNCHANGED <<buf, tag, absorbed>>
    /\ GcmFrame

\* cipher.decrypt_inline(&mut cipher_text, &add_data, &init_vector, &tag)
GcmDecryptInline ==
    /\ op = "decrypt_inline" /\ status = "pending"
    /\ LET d == Gcm_decrypt_inline(key, buf, add_data, init_vector, tag,
                                   overflow_checks)
       IN status' = d.status /\ buf' = d.data
    /\ UNCHANGED <<ret, tag, absorbed>>
    /\ GcmFrame

\* cipher.decrypt(&cipher_text, &add_data, &init_vector, &tag)
GcmDecrypt ==
    /\ op = "decrypt" /\ status = "pending"
    /\ LET d == Gcm_decrypt(key, buf, add_data, init_vector, tag, overflow_checks)
       IN status' = d.status /\ ret' = d.ret
    /\ UNCHANGED <<buf, tag, absorbed>>
    /\ GcmFrame

\* cipher.g_hash(&cipher_text, &add_data, &counter)
GcmGHash ==
    /\ op = "g_hash" /\ status = "pending"
    /\ LET g == g_hash(key, buf, add_data, counter_block(init_vector))
       IN status' = "returned" /\ ret' = g.tag /\ absorbed' = g.absorbed
    /\ UNCHANGED <<buf, tag>>
    /\ GcmFrame

NextGcm ==
    \/ GcmEncrypt
    \/ GcmDecryptEncrypted
    \/ GcmDecryptInline
    \/ GcmDecrypt
    \/ GcmGHash

SpecGcm == InitGcm /\ [][NextGcm]_vars

(* ----------------------------- gcm.rs: claims ------------------------- *)
\* The tag g_hash computes over the cipher text, the additional data and the
\* counter block of the init vector of the call.
ComputedTag == g_hash(key, buf, add_data, counter_block(init_vector)).tag

\* ceil(len / BLOCK_SIZE)
CeilBlocks(len) == (len + BLOCK_SIZE - 1) \div BLOCK_SIZE

\* C11: decrypt_inline returns Err(BadData) whenever the supplied tag differs
\* from the tag g_hash computes, and then leaves cipher_text unchanged; the
\* buffer changes only when the tags are equal; decrypt returns no plain
\* text on a mismatch.
C11_BadDataOnMismatch ==
    [][/\ GcmDecryptInline =>
            /\ tag # ComputedTag => status' = "bad_data" /\ buf' = buf
            /\ tag = ComputedTag => status' # "bad_data"
            /\ buf' # buf => tag = ComputedTag /\ status' = "ok"
       /\ GcmDecrypt =>
            /\ tag # ComputedTag => status' = "bad_data" /\ ret' = <<>>
            /\ tag = ComputedTag => status' # "bad_data"]_vars

\* C11 (witness): a decrypt_inline call with a non-empty cipher text and a tag
\* that is not the computed one has returned Err(BadData).
C11_Witness ==
    /\ op = "decrypt_inline" /\ status = "bad_data"
    /\ buf # <<>> /\ tag # ComputedTag

\* C12: for every key, init_vector, add_data and plain_text, decrypting what
\* encrypt returned, with the tag it returned, succeeds and yields plain_text.
C12_RoundTrip ==
    op = "encrypt" =>
        \/ status \in {"pending", "encrypted"}
        \/ status = "ok" /\ ret = msg

\* C14: g_hash absorbs add_data and cipher_text each as exactly
\* ceil(len / BLOCK_SIZE) blocks: an input whose length is zero or a multiple
\* of BLOCK_SIZE contributes no additional all-zero block.
C14_CeilBlocksAbsorbed ==
    (op = "g_hash" /\ status = "returned") =>
        absorbed = CeilBlocks(Len(add_data)) + CeilBlocks(Len(buf))

(* --------------------------- chacha20.rs ------------------------------ *)
\* Bytes of a word (u32: 4) and of a key-stream block (64).
WordBytes == 4
ChunkBytes == 64
\* Longest msg that encrypt_inline is given, longest msg and buf of encrypt.
MaxMsg == 66
MaxEncMsg == 3
MaxBuf == 5

WordBits == WordBytes * ByteBits
\* 2^32 in the code: the number of values of a word.
WordValues == 2 ^ WordBits

wrapping_add(a, b) == (a + b) % WordValues

\* u32::rotate_left
rotate_left(a, r) ==
    ((a * (2 ^ r)) % WordValues) + (a \div (2 ^ (WordBits - r)))

\* u32::from_le_bytes of the 4 bytes of bs from position i on.
from_le_bytes(bs, i) ==
    bs[i] + (2 ^ ByteBits) * bs[i + 1] + (2 ^ (2 * ByteBits)) * bs[i + 2]
          + (2 ^ (3 * ByteBits)) * bs[i + 3]

\* An array given by its elements, as the tuple of its values.
Words(f) == SubSeq(f, 1, Len(f))

\* quarter_round; the rotations 16, 12, 8, 7 of a 32-bit word are 4, 3, 2, 1
\* here.
quarter_round(q) ==
    LET a1 == wrapping_add(q[1], q[2])
        d1 == rotate_left(Xor(q[4], a1), 4)
        c1 == wrapping_add(q[3], d1)
        b1 == rotate_left(Xor(q[2], c1), 3)
        a2 == wrapping_add(a1, b1)
        d2 == rotate_left(Xor(d1, a2), 2)
        c2 == wrapping_add(c1, d2)
        b2 == rotate_left(Xor(b1, c2), 1)
    IN <<a2, b2, c2, d2>>

\* (state[i], state[j], state[k], state[l]) = quarter_round(..), the words of
\* the state numbered from 0 as in the code.
quarter_round_at(state, ix) ==
    LET q == quarter_round(<<state[ix[1] + 1], state[ix[2] + 1],
                             state[ix[3] + 1], state[ix[4] + 1]>>)
    IN Words([w \in 1 .. 16 |->
                 IF \E n \in 1 .. 4 : ix[n] + 1 = w
                 THEN q[CHOOSE n \in 1 .. 4 : ix[n] + 1 = w]
                 ELSE state[w]])

\* The columns and the diagonals of inner_block, in its order.
QuarterRounds ==
    << <<0, 4, 8, 12>>, <<1, 5, 9, 13>>, <<2, 6, 10, 14>>, <<3, 7, 11, 15>>,
       <<0, 5, 10, 15>>, <<1, 6, 11, 12>>, <<2, 7, 8, 13>>, <<3, 4, 9, 14>> >>

RECURSIVE inner_block_from(_, _)
inner_block_from(state, n) ==
    IF n > Len(QuarterRounds)
    THEN state
    ELSE inner_block_from(quarter_round_at(state, QuarterRounds[n]), n + 1)

inner_block(state) == inner_block_from(state, 1)

\* for _ in 0..10 { inner_block(&mut working_state) }
rounds[state \in Seq(Nat), n \in Nat] ==
    IF n = 0 THEN state ELSE rounds[inner_block(state), n - 1]

\* config_state: the four constants (each reduced to the width of a word),
\* the key, the counter, the nonce.
config_state(k, nonce, ctr) ==
    Words([w \in 1 .. 16 |->
        IF w = 1 THEN 1634760805 % WordValues
        ELSE IF w = 2 THEN 857760878 % WordValues
        ELSE IF w = 3 THEN 2036477234 % WordValues
        ELSE IF w = 4 THEN 1797285236 % WordValues
        ELSE IF w <= 12 THEN from_le_bytes(k, WordBytes * (w - 5) + 1)
        ELSE IF w = 13 THEN ctr
        ELSE from_le_bytes(nonce, WordBytes * (w - 14) + 1)])

\* block: the 64 bytes of the key stream for a counter value.
block(k, nonce, ctr) ==
    LET state == config_state(k, nonce, ctr)
        working_state == rounds[state, 10]
        sum == Words([w \in 1 .. 16 |->
                         wrapping_add(state[w], working_state[w])])
    IN Words([j \in 1 .. ChunkBytes |->
                 (sum[((j - 1) \div WordBytes) + 1]
                      \div (2 ^ (ByteBits * ((j - 1) % WordBytes))))
                     % (2 ^ ByteBits)])

ChaChaKeys == {Pattern(32, s) : s \in {1, 3}}
Nonces == {Pattern(12, 1)}
Counters == {0, 1, WordValues - 1}

\* block(k, nonce, c) for every counter value a drawn call can reach,
\* computed once.
key_stream ==
    [k \in ChaChaKeys |-> [nonce \in Nonces |->
        [c \in {(c0 + i) % WordValues :
                    c0 \in Counters, i \in 0 .. ((MaxMsg + 1) \div ChunkBytes)} |->
            block(k, nonce, c)]]]

\* chacha20::encrypt_inline from chunk number index on: [panicked, data].
\* `index as u32` truncates; `counter + index as u32` overflows when it
\* reaches WordValues: a panic when the build checks overflow, else it wraps.
RECURSIVE chacha_chunks(_, _, _, _, _, _)
chacha_chunks(m, k, nonce, ctr, index, checks) ==
    IF Len(m) <= index * ChunkBytes
    THEN [panicked |-> FALSE, data |-> m]
    ELSE LET sum == ctr + (index % WordValues)
         IN IF sum >= WordValues /\ checks
            THEN [panicked |-> TRUE, data |-> m]
            ELSE LET ks == key_stream[k][nonce][sum % WordValues]
                     xored == Words([j \in 1 .. Len(m) |->
                                  IF /\ j > index * ChunkBytes
                                     /\ j <= (index + 1) * ChunkBytes
                                  THEN Xor(m[j], ks[j - index * ChunkBytes])
                                  ELSE m[j]])
                 IN chacha_chunks(xored, k, nonce, ctr, index + 1, checks)

chacha_encrypt_inline(m, k, nonce, ctr, checks) ==
    chacha_chunks(m, k, nonce, ctr, 0, checks)

\* chacha20::encrypt: [panicked, data], data the content of buf afterwards.
\* buf[..msg.len()] panics when msg is longer than buf.
chacha_encrypt(m, k, nonce, ctr, b, checks) ==
    IF Len(m) > Len(b)
    THEN [panicked |-> TRUE, data |-> b]
    ELSE chacha_encrypt_inline(
             [j \in 1 .. Len(b) |-> IF j <= Len(m) THEN m[j] ELSE b[j]],
             k, nonce, ctr, checks)

(* --------------------- chacha20.rs: state machine --------------------- *)
InitChaCha ==
    /\ status = "pending"
    /\ ret = <<>>
    /\ EcIdle
    /\ add_data = <<>> /\ init_vector = <<>> /\ tag = <<>> /\ absorbed = 0
    /\ overflow_checks \in BOOLEAN
    /\ key \in ChaChaKeys
    /\ chacha_nonce \in Nonces
    /\ counter \in Counters
    /\ \/ /\ op = "encrypt_inline"
          /\ msg \in Patterns(MaxMsg)
          /\ buf = <<>>
       \/ /\ op = "encrypt"
          /\ msg \in Patterns(MaxEncMsg)
          /\ buf \in Patterns(MaxBuf)

ChaChaFrame ==
    UNCHANGED <<op, self, rhs, msg_hash, key, secret_num, divzero, ret,
                add_data, init_vector, tag, chacha_nonce, counter, absorbed,
                overflow_checks>>

\* encrypt_inline(&mut msg, key, nonce, counter)
ChaChaEncryptInline ==
    /\ op = "encrypt_inline" /\ status = "pending"
    /\ LET e == chacha_encrypt_inline(msg, key, chacha_nonce, counter,
                                      overflow_checks)
       IN /\ status' = IF e.panicked THEN "panicked" ELSE "returned"
          /\ msg' = e.data
    /\ UNCHANGED buf
    /\ ChaChaFrame

\* encrypt(&msg, key, nonce, counter, &mut buf)
ChaChaEncrypt ==
    /\ op = "encrypt" /\ status = "pending"
    /\ LET e == chacha_encrypt(msg, key, chacha_nonce, counter, buf,
                               overflow_checks)
       IN /\ status' = IF e.panicked THEN "panicked" ELSE "returned"
          /\ buf' = e.data
    /\ UNCHANGED msg
    /\ ChaChaFrame

NextChaCha ==
    \/ ChaChaEncryptInline
    \/ ChaChaEncrypt

SpecChaCha == InitChaCha /\ [][NextChaCha]_vars

(* -------------------------- chacha20.rs: claims ----------------------- *)
\* The byte of the key stream that belongs to position j of a message: byte
\* (j - 1) mod 64 of the block for counter + (j - 1) div 64, the counter
\* taken as a 32-bit word.
KeyStreamByte(j) ==
    key_stream[key][chacha_nonce]
        [(counter + ((j - 1) \div ChunkBytes)) % WordValues]
        [((j - 1) % ChunkBytes) + 1]

\* C13: encrypt_inline accepts any counter value: for every key, nonce,
\* counter and message length it completes without an arithmetic overflow
\* failure, having XOR-ed chunk i of msg with the key-stream block for
\* counter + i.
C13_AnyCounter ==
    [][ChaChaEncryptInline =>
          /\ status' = "returned"
          /\ msg' = [j \in 1 .. Len(msg) |-> Xor(msg[j], KeyStreamByte(j))]]_vars

\* C15: encrypt with buf at least as long as msg writes the encryption of
\* msg into buf[..msg.len()] and leaves every byte of buf at an index
\* >= msg.len() unchanged.
C15_TailUnchanged ==
    [][(ChaChaEncrypt /\ Len(buf) >= Len(msg) /\ status' = "returned") =>
          /\ Len(buf') = Len(buf)
          /\ \A j \in 1 .. Len(buf) :
                buf'[j] = IF j <= Len(msg)
                          THEN Xor(msg[j], KeyStreamByte(j))
                          ELSE buf[j]]_vars

====
